---- MODULE Spec2Model ----
(***************************************************************************)
(* Model of src/model_training.py: the hyperparameter search               *)
(* (study.optimize over objective), the 3-fold time-series cross           *)
(* validation with early stopping inside objective(), and the main         *)
(* routine (search, final training, save, complexity analysis).            *)
(*                                                                         *)
(* Losses are non-negative integers in an arbitrary unit; float('inf') is  *)
(* the value Inf, larger than every finite loss, and a NaN is the value    *)
(* NaN, for which every comparison is false.  A mean is kept as an exact   *)
(* fraction <<numerator, denominator>>.                                    *)
(***************************************************************************)
EXTENDS Integers, Sequences, FiniteSets, TLC

VARIABLES
    pc,                   \* position of the main routine (lines 125-206)
    N,                    \* len(dataset): number of training sequences (line 78)
    study,                \* the optuna study: its list of trials (lines 151-156)
    best_params,          \* study.best_trial.params (line 157)
    final_model,          \* the final model (lines 161-173, 187)
    model_file,           \* best_model.pth under output_dir (line 196)
    complexity,           \* outcome of the complexity analysis (lines 200-206)
    exc,                  \* the uncaught exception that ended the run, if any
    train_model_defined,  \* whether the global name train_model resolves at line 187
    obj,                  \* the frame of the running (or last) call of objective()
    m_script,             \* the synthetic loss sequence fed to a fold (0: none)
    val_losses,           \* history: the validation losses of the epochs of the fold
    study_nop,            \* the study of the same run with pruning disabled
    val_pass              \* the validation pass of one epoch (lines 103-109)

vars == <<pc, N, study, best_params, final_model, model_file, complexity, exc,
          train_model_defined, obj, m_script, val_losses, study_nop, val_pass>>

mainVars == <<pc, N, study, best_params, final_model, model_file, complexity, exc,
              train_model_defined, study_nop>>

-----------------------------------------------------------------------------
(* Bounds of the model *)

MaxN == 4            \* largest dataset size of a run of the main routine
MaxLoss == 2         \* finite validation losses in a run of the main routine
MaxTrials == 2       \* n_trials of the model (30 at line 156)
MaxNTrial == 9       \* largest dataset size of the single-trial model
MaxLossTrial == 4    \* finite validation losses of the single-trial model
MaxLossFold == 10    \* finite validation losses of the single-fold model
MaxM == 49           \* longest strictly decreasing prefix of a synthetic sequence
MaxV == 65           \* largest validation subset of the validation-pass model
MaxBatchLoss == 2    \* mean losses of a validation batch
MaxHist == 6         \* epochs of a fold of the model that keeps the loss history
MaxLossHist == 2     \* finite validation losses of that model

(* Program constants *)

n_splits == 3        \* TimeSeriesSplit(n_splits=3), line 76
MaxEpochs == 50      \* range(50), line 90
Patience == 5        \* patience_counter >= 5, line 116
SchedPatience == 3   \* ReduceLROnPlateau(patience=3), line 72
batch_size == 32     \* DataLoader(val_subset, batch_size=32), line 85
Inf == 1000          \* float('inf'), line 87: above every finite loss
NaN == 0 - 1         \* a NaN validation loss (lines 108-109)

None == "None"

-----------------------------------------------------------------------------
(* Float comparisons and the mean *)

IsFinite(x) == x # NaN /\ x # Inf

\* x < y on floats: false as soon as one side is NaN; inf < inf is false
Lt(x, y) == x # NaN /\ y # NaN /\ x < y

RECURSIVE SumSeq(_)
SumSeq(s) == IF s = <<>> THEN 0 ELSE Head(s) + SumSeq(Tail(s))

InfValue == <<1, 0>>
NaNValue == <<0, 0>>

\* np.mean(fold_losses): sum / len; inf if an element is inf; nan on NaN or []
np_mean(s) ==
    IF s = <<>> \/ \E i \in 1..Len(s) : s[i] = NaN THEN NaNValue
    ELSE IF \E i \in 1..Len(s) : s[i] = Inf THEN InfValue
    ELSE <<SumSeq(s), Len(s)>>

ValIsNaN(v) == v = NaNValue
ValIsInf(v) == v = InfValue

\* v < w on trial values (fractions, inf, nan)
ValLt(v, w) ==
    /\ ~ValIsNaN(v) /\ ~ValIsNaN(w)
    /\ ~ValIsInf(v)
    /\ (ValIsInf(w) \/ v[1] * w[2] < w[1] * v[2])

ValLe(v, w) ==
    /\ ~ValIsNaN(v) /\ ~ValIsNaN(w)
    /\ (ValIsInf(w) \/ (~ValIsInf(v) /\ v[1] * w[2] <= w[1] * v[2]))

-----------------------------------------------------------------------------
(* TimeSeriesSplit(n_splits=3).split(indices), lines 76-81 (scikit-learn:     *)
(* gap = 0, test_size = n_samples // (n_splits + 1))                          *)

n_folds == n_splits + 1

test_size(n) == n \div n_folds

SplitDefined_lax(n) == n >= 0

\* split() raises ValueError unless both hold
SplitDefined(n) == n_folds <= n /\ n - test_size(n) * n_splits > 0

\* test_starts = range(n - n_splits * test_size, n, test_size); k = 1..n_splits
test_start(n, k) == n - n_splits * test_size(n) + (k - 1) * test_size(n)

TimeSeriesSplit_inclusive(n, k) ==
    [train |-> 0 .. test_start(n, k),
     val   |-> test_start(n, k) .. test_start(n, k) + test_size(n) - 1]

TimeSeriesSplit_sliding(n, k) ==
    [train |-> (test_start(n, k) - test_size(n)) .. (test_start(n, k) - 1),
     val   |-> test_start(n, k) .. test_start(n, k) + test_size(n) - 1]

TimeSeriesSplit_reversed(n, k) ==
    [train |-> 0 .. (test_start(n, n_splits + 1 - k) - 1),
     val   |-> test_start(n, n_splits + 1 - k) ..
                   test_start(n, n_splits + 1 - k) + test_size(n) - 1]

\* the k-th (train_idx, val_idx): indices[:test_start], indices[test_start:test_start+test_size]
TimeSeriesSplit(n, k) ==
    [train |-> 0 .. test_start(n, k) - 1,
     val   |-> test_start(n, k) .. test_start(n, k) + test_size(n) - 1]

SetMax(S) == CHOOSE x \in S : \A y \in S : y <= x

RECURSIVE Pow2(_)
Pow2(k) == IF k = 0 THEN 1 ELSE 2 * Pow2(k - 1)

-----------------------------------------------------------------------------
(* objective(trial), lines 47-120, as steps on its frame                      *)

\* trial.suggest_*: the sampled hyperparameters (lines 49-54); lr in units of
\* 1e-8, at the two ends of its range [1e-4, 1e-3]
Configs == {[gat_heads |-> 2, lr |-> 10000], [gat_heads |-> 4, lr |-> 100000]}

\* no call of objective() is running
IdleFrame ==
    [pc |-> "idle", params |-> None, n |-> 0,
     model_seen |-> 0 - 1, lr_halvings |-> 0, sched_best |-> Inf, sched_bad |-> 0,
     fold |-> 0, train_idx |-> {}, val_idx |-> {},
     epoch |-> 0, best_val_loss |-> Inf, patience_counter |-> 0,
     fold_losses |-> <<>>, value |-> None, raised |-> None, pruned |-> FALSE]

\* lines 49-79: sample, build the model (freshly initialised: it has seen no
\* sample), the optimizer at lr, the scheduler (best = inf, num_bad_epochs = 0),
\* the splitter, and fold_losses = []
ObjStart(params, n) ==
    [IdleFrame EXCEPT !.pc = "split", !.params = params, !.n = n]

NextFold_noreset(F) ==
    IF ~SplitDefined(F.n) THEN [F EXCEPT !.pc = "raised", !.raised = "ValueError"]
    ELSE IF F.fold = n_splits
         THEN [F EXCEPT !.pc = "returned", !.value = np_mean(F.fold_losses)]
         ELSE [F EXCEPT !.pc = "epoch",
                        !.fold = F.fold + 1,
                        !.train_idx = TimeSeriesSplit(F.n, F.fold + 1).train,
                        !.val_idx = TimeSeriesSplit(F.n, F.fold + 1).val,
                        !.epoch = 0]

\* line 81, one iteration of the for: the next (train_idx, val_idx), lines 82-88;
\* ValueError from split() on its first use; the return of line 120 when the
\* splits are used up
NextFold(F) ==
    IF ~SplitDefined(F.n) THEN [F EXCEPT !.pc = "raised", !.raised = "ValueError"]
    ELSE IF F.fold = n_splits
         THEN [F EXCEPT !.pc = "returned", !.value = np_mean(F.fold_losses)]
         ELSE [F EXCEPT !.pc = "epoch",
                        !.fold = F.fold + 1,
                        !.train_idx = TimeSeriesSplit(F.n, F.fold + 1).train,
                        !.val_idx = TimeSeriesSplit(F.n, F.fold + 1).val,
                        !.best_val_loss = Inf,
                        !.patience_counter = 0,
                        !.epoch = 0]

\* ReduceLROnPlateau.is_better, mode='min', threshold=1e-4 (relative)
is_better(a, best) ==
    /\ a # NaN
    /\ IF best = Inf THEN a # Inf ELSE a # Inf /\ a * 10000 < best * 9999

\* ReduceLROnPlateau._reduce_lr, factor = 0.5, min_lr = 0, eps = 1e-8: the new
\* lr is taken only if old - new > eps, i.e. lr0 / 2^(k+1) > 1e-8
reduce_lr(F) ==
    IF F.params.lr > Pow2(F.lr_halvings + 1) THEN F.lr_halvings + 1 ELSE F.lr_halvings

\* scheduler.step(best_val_loss), line 99 (cooldown = 0)
SchedulerStep(F) ==
    LET better == is_better(F.best_val_loss, F.sched_best)
        bad    == IF better THEN 0 ELSE F.sched_bad + 1
    IN  [F EXCEPT !.sched_best = IF better THEN F.best_val_loss ELSE F.sched_best,
                  !.sched_bad = IF bad > SchedPatience THEN 0 ELSE bad,
                  !.lr_halvings = IF bad > SchedPatience THEN reduce_lr(F)
                                  ELSE F.lr_halvings]

\* lines 92-98: one pass over train_loader; every sample of train_idx updates
\* the model
TrainPass(F) ==
    [F EXCEPT !.model_seen = SetMax(F.train_idx \cup {F.model_seen})]

Improved_le(val_loss, best) == val_loss # NaN /\ best # NaN /\ val_loss <= best

\* line 111
Improved(val_loss, best) == Lt(val_loss, best)

LoopEnds_late(improved, counter, epoch) ==
    (~improved /\ counter > Patience) \/ epoch >= MaxEpochs

LoopEnds_nocap(improved, counter, epoch) ==
    ~improved /\ counter >= Patience

\* the loop of line 90 ends: break of lines 116-117, or range(50) used up
LoopEnds(improved, counter, epoch) ==
    (~improved /\ counter >= Patience) \/ epoch >= MaxEpochs

PruneNow_aboveOne(F, val_loss) == Lt(1, val_loss)

\* whether the epoch ends the trial by pruning: lines 101-117 neither report
\* val_loss to the trial (trial.report) nor ask it (trial.should_prune), and
\* nothing raises TrialPruned
PruneNow(F, val_loss) == FALSE

\* lines 90-117, one epoch: training pass, scheduler step, validation (its mean
\* loss val_loss is the input), early stopping.  raises: the training pass
\* raises a numerical error (RuntimeError).  Line 109 divides by the size of the
\* validation subset.  A frame that was pruned goes on as the same trial does
\* with pruning disabled, and keeps the mark.
EpochStep(F, val_loss, raises) ==
    IF raises THEN [F EXCEPT !.pc = "raised", !.raised = "RuntimeError"]
    ELSE LET T == SchedulerStep(TrainPass(F))
             improved == Improved(val_loss, F.best_val_loss)
             counter  == IF improved THEN 0 ELSE F.patience_counter + 1
         IN  IF F.val_idx = {}
             THEN [T EXCEPT !.pc = "raised", !.raised = "ZeroDivisionError"]
             ELSE [T EXCEPT !.best_val_loss = IF improved THEN val_loss
                                              ELSE F.best_val_loss,
                            !.patience_counter = counter,
                            !.epoch = F.epoch + 1,
                            !.pruned = F.pruned \/ PruneNow(F, val_loss),
                            !.pc = IF LoopEnds(improved, counter, F.epoch + 1)
                                   THEN "fold_end" ELSE "epoch"]

FoldEnd_assign(F) ==
    [F EXCEPT !.fold_losses = <<F.best_val_loss>>, !.pc = "split"]

\* line 118
FoldEnd(F) ==
    [F EXCEPT !.fold_losses = Append(F.fold_losses, F.best_val_loss), !.pc = "split"]

\* the validation losses of a fold's epochs, as an input: epoch e gets
\* script[e], and every epoch after the script's end its last element
LossAt(script, e) == IF e <= Len(script) THEN script[e] ELSE script[Len(script)]

\* lines 90-117, the whole loop: epochs until the loop ends or a pass raises
\* (raise_at: the epoch whose training pass raises, 0 for none)
RECURSIVE RunEpochs(_, _, _)
RunEpochs(F, script, raise_at) ==
    IF F.pc # "epoch" THEN F
    ELSE RunEpochs(EpochStep(F, LossAt(script, F.epoch + 1), raise_at = F.epoch + 1),
                   script, raise_at)

\* lines 81-118, one iteration of the for over the splits, run to its end
RunFold(F, script, raise_at) ==
    LET B == NextFold(F)
        E == RunEpochs(B, script, raise_at)
    IN  IF B.pc # "epoch" THEN B
        ELSE IF E.pc = "fold_end" THEN FoldEnd(E) ELSE E

-----------------------------------------------------------------------------
(* The study, lines 151-157 (optuna, direction="minimize", in-memory storage: *)
(* the best trial is kept up to date as trials complete)                      *)

NewStudy == [trials |-> <<>>, best_trial |-> 0]

Better_maximize(new_value, best_value) == ValLt(best_value, new_value)

\* direction="minimize": a completed trial replaces the best one when the best
\* value is greater than its value
Better(new_value, best_value) == ValLt(new_value, best_value)

TellComplete_finite(st, params, value) ==
    IF ValIsInf(value) \/ ValIsNaN(value)
    THEN [st EXCEPT !.trials = Append(st.trials,
                        [state |-> "FAIL", value |-> value, params |-> params,
                         fail_reason |-> None])]
    ELSE [trials |-> Append(st.trials,
                        [state |-> "COMPLETE", value |-> value, params |-> params,
                         fail_reason |-> None]),
          best_trial |-> IF st.best_trial = 0 THEN Len(st.trials) + 1
                         ELSE IF Better(value, st.trials[st.best_trial].value)
                              THEN Len(st.trials) + 1
                              ELSE st.best_trial]

\* a trial that returned: COMPLETE with its value (FAIL if the value is NaN)
TellComplete(st, params, value) ==
    LET t  == [state |-> IF ValIsNaN(value) THEN "FAIL" ELSE "COMPLETE",
               value |-> value, params |-> params, fail_reason |-> None]
        id == Len(st.trials) + 1
    IN  [trials |-> Append(st.trials, t),
         best_trial |-> IF t.state # "COMPLETE" THEN st.best_trial
                        ELSE IF st.best_trial = 0 THEN id
                        ELSE IF Better(value, st.trials[st.best_trial].value) THEN id
                        ELSE st.best_trial]

\* a trial whose objective raised: FAIL, no value, the exception as the reason
TellFail(st, params, error) ==
    [st EXCEPT !.trials = Append(st.trials,
                   [state |-> "FAIL", value |-> NaNValue, params |-> params,
                    fail_reason |-> error])]

\* a trial that raised TrialPruned: PRUNED, out of the running for the best
TellPruned(st, params) ==
    [st EXCEPT !.trials = Append(st.trials,
                   [state |-> "PRUNED", value |-> NaNValue, params |-> params,
                    fail_reason |-> None])]

NoModel == [params |-> None, trained |-> FALSE]
\* no validation pass is running
NoPass == [pc |-> "none", V |-> 0, means |-> <<>>, batch |-> 0, val_loss |-> 0,
           result |-> NaNValue]
NoFile == [written |-> FALSE, model |-> NoModel]

-----------------------------------------------------------------------------
(* Inputs *)

DatasetSizes == (n_folds - 1)..MaxN
TrialSizes == 0..MaxNTrial
MainLosses == (1..MaxLoss) \cup {NaN}
TrialLosses == (1..MaxLossTrial) \cup {NaN}
\* a fold's loss script in a run of the main routine: one loss, at every epoch
MainScripts == {<<l>> : l \in MainLosses}
\* in the single-trial model: the loss of epoch 1, the loss of the later epochs
TrialScripts == TrialLosses \X TrialLosses
FoldLosses == (1..MaxLossFold) \cup {NaN, Inf}

\* the synthetic sequence of a fold: strictly decreasing for the first m epochs,
\* flat afterwards
SynthLoss(m, e) == IF e <= m THEN MaxM + 2 - e ELSE MaxM + 2 - m

-----------------------------------------------------------------------------
(* The main routine, lines 125-206 *)

MainSequence_swapped ==
    <<"load", "create_study", "optimize", "build_final", "train_final", "complexity",
      "save", "done">>

\* the statements of the main block, in the order of the file
MainSequence ==
    <<"load", "create_study", "optimize", "build_final", "train_final", "save",
      "complexity", "done">>

\* the statement executed after statement p completes
Following(p) ==
    LET i == CHOOSE j \in 1..Len(MainSequence) : MainSequence[j] = p
    IN  MainSequence[i + 1]

\* lines 127-147: load the data, build the graph and the sequences
Load ==
    /\ pc = "load"
    /\ \/ /\ \E n \in DatasetSizes : N' = n
          /\ pc' = Following("load")
          /\ exc' = exc
       \/ /\ pc' = "error"
          /\ exc' = "load"
          /\ N' = N
    /\ UNCHANGED <<study, best_params, final_model, model_file, complexity,
                   train_model_defined, obj, m_script, val_losses, val_pass, study_nop>>

\* lines 151-155
CreateStudy ==
    /\ pc = "create_study"
    /\ study' = NewStudy
    /\ study_nop' = NewStudy
    /\ pc' = Following("create_study")
    /\ UNCHANGED <<N, best_params, final_model, model_file, complexity, exc,
                   train_model_defined, obj, m_script, val_losses, val_pass>>

\* line 156, study.optimize: the next trial calls objective(trial); lines 49-79
StartTrialOf(budget) ==
    /\ pc = "optimize"
    /\ obj.pc = "idle"
    /\ Len(study.trials) < budget
    /\ \E params \in Configs : obj' = ObjStart(params, N)
    /\ UNCHANGED <<mainVars, m_script, val_losses, val_pass>>

StartTrial == StartTrialOf(MaxTrials)

\* lines 81-118: one fold of the running trial (or the return of line 120)
Fold ==
    /\ pc = "optimize"
    /\ obj.pc = "split"
    /\ \E script \in MainScripts : \E raise_at \in 0..Len(script) :
           obj' = RunFold(obj, script, raise_at)
    /\ UNCHANGED <<mainVars, m_script, val_losses, val_pass>>

\* study.optimize takes the outcome of objective(): a returned value is told to
\* the study; an exception marks the trial failed and, with the default
\* catch=(), propagates out of study.optimize (line 156)
TrialEnd ==
    /\ pc = "optimize"
    /\ \/ /\ obj.pc = "returned"
          /\ study' = IF obj.pruned THEN TellPruned(study, obj.params)
                       ELSE TellComplete(study, obj.params, obj.value)
          /\ study_nop' = TellComplete(study_nop, obj.params, obj.value)
          /\ pc' = pc
          /\ exc' = exc
       \/ /\ obj.pc = "raised"
          /\ study' = TellFail(study, obj.params, obj.raised)
          /\ study_nop' = TellFail(study_nop, obj.params, obj.raised)
          /\ pc' = "error"
          /\ exc' = obj.raised
    /\ obj' = IdleFrame
    /\ UNCHANGED <<N, best_params, final_model, model_file, complexity,
                   train_model_defined, m_script, val_losses, val_pass>>

\* line 157: study.best_trial.params; ValueError when no trial is complete
BestTrial ==
    /\ pc = "optimize"
    /\ obj.pc = "idle"
    /\ Len(study.trials) = MaxTrials
    /\ IF study.best_trial = 0
       THEN pc' = "error" /\ exc' = "best_trial" /\ best_params' = best_params
       ELSE /\ best_params' = study.trials[study.best_trial].params
            /\ pc' = Following("optimize")
            /\ exc' = exc
    /\ UNCHANGED <<N, study, final_model, model_file, complexity,
                   train_model_defined, obj, m_script, val_losses, val_pass, study_nop>>

\* lines 161-182
BuildFinal ==
    /\ pc = "build_final"
    /\ final_model' = [params |-> best_params, trained |-> FALSE]
    /\ pc' = Following("build_final")
    /\ UNCHANGED <<N, study, best_params, model_file, complexity, exc,
                   train_model_defined, obj, m_script, val_losses, val_pass, study_nop>>

\* train_model(final_model, ..., num_epochs=200, patience=10): the final
\* training run; it returns with the model trained
train_model(model) == [model EXCEPT !.trained = TRUE]

\* lines 187-190: train_model(...) is neither defined nor imported in the file
\* (lines 3-15): NameError unless the namespace the script runs in binds it
TrainFinal ==
    /\ pc = "train_final"
    /\ IF train_model_defined
       THEN /\ final_model' = train_model(final_model)
            /\ pc' = Following("train_final")
            /\ exc' = exc
       ELSE /\ pc' = "error"
            /\ exc' = "NameError"
            /\ final_model' = final_model
    /\ UNCHANGED <<N, study, best_params, model_file, complexity,
                   train_model_defined, obj, m_script, val_losses, val_pass, study_nop>>

\* lines 195-197: torch.save(final_model.state_dict(), model_path); it can fail
Save ==
    /\ pc = "save"
    /\ \/ /\ model_file' = [written |-> TRUE, model |-> final_model]
          /\ pc' = Following("save")
          /\ exc' = exc
       \/ /\ pc' = "error"
          /\ exc' = "save"
          /\ model_file' = model_file
    /\ UNCHANGED <<N, study, best_params, final_model, complexity,
                   train_model_defined, obj, m_script, val_losses, val_pass, study_nop>>

\* lines 200-206: ModelWrapper, get_model_complexity_info, the log line; no
\* try/except around them
Complexity ==
    /\ pc = "complexity"
    /\ \/ /\ complexity' = "reported"
          /\ pc' = Following("complexity")
          /\ exc' = exc
       \/ /\ complexity' = "failed"
          /\ pc' = "error"
          /\ exc' = "complexity"
    /\ UNCHANGED <<N, study, best_params, final_model, model_file,
                   train_model_defined, obj, m_script, val_losses, val_pass, study_nop>>

Init ==
    /\ pc = "load"
    /\ N = 0
    /\ study = NewStudy
    /\ study_nop = NewStudy
    /\ val_losses = <<>>
    /\ val_pass = NoPass
    /\ best_params = None
    /\ final_model = NoModel
    /\ model_file = NoFile
    /\ complexity = None
    /\ exc = None
    /\ train_model_defined \in BOOLEAN
    /\ obj = IdleFrame
    /\ m_script = 0

Next ==
    \/ Load
    \/ CreateStudy
    \/ StartTrial
    \/ Fold
    \/ TrialEnd
    \/ BestTrial
    \/ BuildFinal
    \/ TrainFinal
    \/ Save
    \/ Complexity

Spec == Init /\ [][Next]_vars

-----------------------------------------------------------------------------
(* One call of objective(), its folds step by step *)

OneTrial == StartTrialOf(1)

\* line 81 (and 82-88, or the return of line 120)
FoldBegin ==
    /\ pc = "optimize"
    /\ obj.pc = "split"
    /\ obj' = NextFold(obj)
    /\ val_losses' = <<>>
    /\ UNCHANGED <<mainVars, m_script, val_pass>>

\* lines 90-117: the epoch loop of the fold, run to its end
EpochLoop ==
    /\ pc = "optimize"
    /\ obj.pc = "epoch"
    /\ obj.epoch = 0
    /\ \E script \in TrialScripts : \E raise_at \in 0..Len(script) :
           /\ obj' = RunEpochs(obj, script, raise_at)
           /\ val_losses' = [e \in 1..obj'.epoch |-> LossAt(script, e)]
    /\ UNCHANGED <<mainVars, m_script, val_pass>>

\* line 118
FoldDone ==
    /\ pc = "optimize"
    /\ obj.pc = "fold_end"
    /\ obj' = FoldEnd(obj)
    /\ UNCHANGED <<mainVars, m_script, val_losses, val_pass>>

InitTrial ==
    /\ pc = "optimize"
    /\ N \in TrialSizes
    /\ study = NewStudy
    /\ study_nop = NewStudy
    /\ val_losses = <<>>
    /\ val_pass = NoPass
    /\ best_params = None
    /\ final_model = NoModel
    /\ model_file = NoFile
    /\ complexity = None
    /\ exc = None
    /\ train_model_defined = FALSE
    /\ obj = IdleFrame
    /\ m_script = 0

NextTrial ==
    \/ OneTrial
    \/ FoldBegin
    \/ EpochLoop
    \/ FoldDone
    \/ TrialEnd

SpecTrial == InitTrial /\ [][NextTrial]_vars

-----------------------------------------------------------------------------
(* One fold of a call of objective(), its epochs one by one *)

\* the frame at line 90 of fold k of a trial whose earlier folds ran on the
\* constant loss 1
RECURSIVE FrameAtFold(_, _, _)
FrameAtFold(params, n, k) ==
    IF k = 1 THEN NextFold(ObjStart(params, n))
    ELSE NextFold(RunFold(FrameAtFold(params, n, k - 1), <<1>>, 0))

\* lines 90-117, one epoch of the loop
Epoch ==
    /\ pc = "optimize"
    /\ obj.pc = "epoch"
    /\ \E val_loss \in FoldLosses : \E raises \in BOOLEAN :
           obj' = EpochStep(obj, val_loss, raises)
    /\ UNCHANGED <<mainVars, m_script, val_losses, val_pass>>

InitFold ==
    /\ pc = "optimize"
    /\ N = n_folds
    /\ study = NewStudy
    /\ study_nop = NewStudy
    /\ val_losses = <<>>
    /\ val_pass = NoPass
    /\ best_params = None
    /\ final_model = NoModel
    /\ model_file = NoFile
    /\ complexity = None
    /\ exc = None
    /\ train_model_defined = FALSE
    /\ \E params \in Configs : \E k \in 1..n_splits : obj = FrameAtFold(params, N, k)
    /\ m_script = 0

NextFoldSpec ==
    \/ Epoch
    \/ FoldDone

SpecFold == InitFold /\ [][NextFoldSpec]_vars

\* one epoch of a fold fed the synthetic sequence m_script
SynthEpoch ==
    /\ pc = "optimize"
    /\ obj.pc = "epoch"
    /\ m_script > 0
    /\ obj' = EpochStep(obj, SynthLoss(m_script, obj.epoch + 1), FALSE)
    /\ UNCHANGED <<mainVars, m_script, val_losses, val_pass>>

InitSynth ==
    /\ pc = "optimize"
    /\ N = n_folds
    /\ study = NewStudy
    /\ study_nop = NewStudy
    /\ val_losses = <<>>
    /\ val_pass = NoPass
    /\ best_params = None
    /\ final_model = NoModel
    /\ model_file = NoFile
    /\ complexity = None
    /\ exc = None
    /\ train_model_defined = FALSE
    /\ \E params \in Configs : obj = FrameAtFold(params, N, 1)
    /\ m_script \in 1..MaxM

NextSynth ==
    \/ SynthEpoch
    \/ FoldDone

SpecSynth == InitSynth /\ [][NextSynth]_vars

\* One fold of a call of objective(), its epochs one by one, with the
\* validation losses of the epochs kept in val_losses
HistLosses == (1..MaxLossHist) \cup {NaN, Inf}

\* lines 90-117, one epoch of the loop
HistEpoch ==
    /\ pc = "optimize"
    /\ obj.pc = "epoch"
    /\ Len(val_losses) < MaxHist
    /\ \E val_loss \in HistLosses :
           /\ obj' = EpochStep(obj, val_loss, FALSE)
           /\ val_losses' = Append(val_losses, val_loss)
    /\ UNCHANGED <<mainVars, m_script, val_pass>>

\* line 90 of a fold of a trial, no epoch run yet
InitHist ==
    /\ pc = "optimize"
    /\ N = n_folds
    /\ study = NewStudy
    /\ study_nop = NewStudy
    /\ val_losses = <<>>
    /\ val_pass = NoPass
    /\ best_params = None
    /\ final_model = NoModel
    /\ model_file = NoFile
    /\ complexity = None
    /\ exc = None
    /\ train_model_defined = FALSE
    /\ \E params \in Configs : \E k \in 1..n_splits : obj = FrameAtFold(params, N, k)
    /\ m_script = 0

NextHist ==
    \/ HistEpoch
    \/ FoldDone

SpecHist == InitHist /\ [][NextHist]_vars

-----------------------------------------------------------------------------
(* The validation pass of one epoch, lines 103-109, its batches one by one *)

\* len(val_loader): the last batch is kept when it is partial (drop_last=False)
NumBatches(V) == (V + batch_size - 1) \div batch_size

\* seq.size(0) of the b-th batch
BatchLen(V, b) == IF b * batch_size <= V THEN batch_size ELSE V - (b - 1) * batch_size

Accumulate_unweighted(acc, mean, size) == acc + mean

\* line 108: val_loss += criterion(out, tgt).item() * seq.size(0); the MSELoss
\* of line 73 is the mean over the batch
Accumulate(acc, mean, size) == acc + mean * size

BatchLosses == 1..MaxBatchLoss

\* lines 105-108, one iteration: the batch's mean loss is the input
ValBatch ==
    /\ val_pass.pc = "loop"
    /\ val_pass.batch < NumBatches(val_pass.V)
    /\ \E mean \in BatchLosses :
           val_pass' = [val_pass EXCEPT
                           !.batch = val_pass.batch + 1,
                           !.means = Append(val_pass.means, mean),
                           !.val_loss = Accumulate(val_pass.val_loss, mean,
                                                   BatchLen(val_pass.V, val_pass.batch + 1))]
    /\ UNCHANGED <<mainVars, obj, m_script, val_losses>>

\* line 109: val_loss /= len(val_loader.dataset)
ValDivide ==
    /\ val_pass.pc = "loop"
    /\ val_pass.batch = NumBatches(val_pass.V)
    /\ val_pass' = [val_pass EXCEPT !.result = <<val_pass.val_loss, val_pass.V>>,
                                    !.pc = "done"]
    /\ UNCHANGED <<mainVars, obj, m_script, val_losses>>

\* line 104: val_loss = 0.0, on a validation subset of V samples
InitVal ==
    /\ pc = "optimize"
    /\ N = n_folds
    /\ study = NewStudy
    /\ study_nop = NewStudy
    /\ val_losses = <<>>
    /\ \E V \in 1..MaxV : val_pass = [NoPass EXCEPT !.pc = "loop", !.V = V]
    /\ best_params = None
    /\ final_model = NoModel
    /\ model_file = NoFile
    /\ complexity = None
    /\ exc = None
    /\ train_model_defined = FALSE
    /\ obj = IdleFrame
    /\ m_script = 0

NextVal ==
    \/ ValBatch
    \/ ValDivide

SpecVal == InitVal /\ [][NextVal]_vars

-----------------------------------------------------------------------------
(* Properties *)

\* the fold's loop has ended
FoldHalted == obj.pc \in {"fold_end", "split"} /\ obj.fold >= 1

\* the search is over and a best trial was found (line 157 has completed)
AfterSearch ==
    \/ pc \in {"build_final", "train_final", "save", "complexity", "done"}
    \/ pc = "error" /\ exc \in {"NameError", "save", "complexity"}

\* the final model has been built (line 171 has completed)
AfterBuild ==
    \/ pc \in {"train_final", "save", "complexity", "done"}
    \/ pc = "error" /\ exc \in {"NameError", "save", "complexity"}

CompleteTrials == {i \in 1..Len(study.trials) : study.trials[i].state = "COMPLETE"}

\* C1: in every fold of the 3-fold split of 0..n-1 every validation index is
\* greater than every training index of the fold, and the validation ranges of
\* two different folds are disjoint
C1_SplitOrdered ==
    obj.fold >= 1 =>
        /\ \A v \in obj.val_idx : \A t \in obj.train_idx : v > t
        /\ obj.val_idx = TimeSeriesSplit(obj.n, obj.fold).val
        /\ \A j \in 1..n_splits : \A k \in 1..n_splits :
               j # k => TimeSeriesSplit(obj.n, j).val \cap TimeSeriesSplit(obj.n, k).val = {}

C1_Witness ==
    /\ obj.fold = n_splits
    /\ obj.n = MaxNTrial
    /\ Cardinality(obj.val_idx) >= 2
    /\ obj.train_idx # {}

\* C2, as stated: on a loss sequence that strictly decreases for m epochs and
\* is flat afterwards, the fold halts at exactly epoch m + patience, for every m
C2_HaltsAtMPlusPatience ==
    FoldHalted => obj.epoch = m_script + Patience

\* C2, amended: it halts at exactly epoch m + patience when m + patience <= 50,
\* and at epoch 50, the epoch cap, for every larger m
C2_HaltsAtMPlusPatienceOrCap ==
    FoldHalted =>
        obj.epoch = IF m_script + Patience <= MaxEpochs THEN m_script + Patience
                    ELSE MaxEpochs

C2_Witness ==
    /\ FoldHalted
    /\ m_script = 3
    /\ obj.epoch = 3 + Patience
    /\ obj.patience_counter = Patience

\* C3: at the start of every fold of a trial the model, the optimizer and the
\* scheduler are freshly initialised: the model has seen no sample, the learning
\* rate is the sampled one, the scheduler has best = inf and no bad epoch
C3_FreshPerFold ==
    (obj.pc = "epoch" /\ obj.epoch = 0) =>
        /\ obj.model_seen = 0 - 1
        /\ obj.lr_halvings = 0
        /\ obj.sched_best = Inf
        /\ obj.sched_bad = 0

\* C4: a numerical error raised in a trial's objective does not end the run: the
\* trial is scored worse than every completed trial and the search goes on
C4_TrialFailureContained ==
    \A i \in 1..Len(study.trials) :
        (study.trials[i].state = "FAIL" /\ study.trials[i].fail_reason = "RuntimeError") =>
            /\ ~(pc = "error" /\ exc = "RuntimeError")
            /\ ValIsInf(study.trials[i].value)

\* C5: after the search one trial is the best one, it is a completed trial whose
\* score is <= the score of every completed trial, and the final model is built
\* from its parameters
C5_BestIsMinimum ==
    AfterSearch =>
        /\ study.best_trial \in CompleteTrials
        /\ \A i \in CompleteTrials :
               ValLe(study.trials[study.best_trial].value, study.trials[i].value)
        /\ best_params = study.trials[study.best_trial].params
        /\ AfterBuild => final_model.params = study.trials[study.best_trial].params

C5_Witness ==
    /\ pc = "train_final"
    /\ study.best_trial = 2
    /\ ValLt(study.trials[2].value, study.trials[1].value)
    /\ study.trials[1].params # study.trials[2].params
    /\ final_model.params = study.trials[2].params

\* C6: a run whose search completed does final training to completion (and
\* then saves): it does not end before the final model is trained
C6_FinalTrainingRuns ==
    (AfterSearch /\ pc \in {"error", "done"}) => final_model.trained

\* C7: a failure of the complexity analysis is non-fatal: the run ends normally
C7_ComplexityFailureNonFatal ==
    complexity = "failed" => pc # "error"

\* C8: the complexity analysis never runs before the save: once it has run (and
\* succeeded or failed) the model file is written, and a run that trained the
\* final model and ended without the file ended by the write failing
C8_SaveBeforeComplexity ==
    /\ complexity # None => model_file.written
    /\ pc = "complexity" => model_file.written
    /\ (AfterBuild /\ final_model.trained /\ pc \in {"error", "done"}
           /\ ~model_file.written) => exc = "save"

C8_Witness ==
    /\ complexity = "failed"
    /\ pc = "error"
    /\ final_model.trained
    /\ model_file.written
    /\ model_file.model = final_model

\* C9: the epoch loop of a fold goes on only while the no-improvement counter
\* is below 5 and fewer than 50 epochs have run, and it has stopped only with
\* the counter at 5 or the epoch count at 50, whatever the validation losses
\* (NaN and inf among them); a trial has at most 3 folds
C9_LoopBounded ==
    /\ obj.pc = "epoch" => obj.patience_counter < Patience /\ obj.epoch < MaxEpochs
    /\ FoldHalted => obj.patience_counter = Patience \/ obj.epoch = MaxEpochs
    /\ obj.epoch <= MaxEpochs
    /\ obj.patience_counter <= Patience
    /\ obj.fold <= n_splits

C9_Witness ==
    /\ obj.pc = "fold_end"
    /\ obj.epoch = MaxEpochs
    /\ obj.patience_counter < Patience
    /\ obj.fold = n_splits

\* C10: the value objective() returns is the unweighted mean of the best
\* validation losses of its folds, one per fold: their sum over the number of
\* folds ([2, 4, 3] gives 3)
C10_MeanOfFoldBests ==
    /\ (obj.pc = "split" /\ obj.fold >= 1) =>
           /\ Len(obj.fold_losses) = obj.fold
           /\ obj.fold_losses[obj.fold] = obj.best_val_loss
    /\ obj.pc = "returned" =>
           /\ Len(obj.fold_losses) = n_splits
           /\ (\A k \in 1..n_splits : IsFinite(obj.fold_losses[k])) =>
                  /\ obj.value[1] =
                         obj.fold_losses[1] + obj.fold_losses[2] + obj.fold_losses[3]
                  /\ obj.value[2] = n_splits
           /\ obj.fold_losses = <<2, 4, 3>> => obj.value[1] = 3 * obj.value[2]

C10_Witness ==
    /\ obj.pc = "returned"
    /\ obj.fold_losses = <<2, 4, 3>>
    /\ obj.value = <<9, 3>>

\* the best loss after the first epoch of a fold with the losses h: its first
\* loss, or the inf of line 87 when the first loss is not below inf (NaN, inf)
InitialBest(h) == IF Lt(h[1], Inf) THEN h[1] ELSE Inf

\* the losses h of a fold's epochs never improve past its initial loss
NeverImproves(h) == Len(h) >= 1 /\ \A e \in 2..Len(h) : ~Lt(h[e], InitialBest(h))

\* C11: a fold whose validation loss never improves past its initial loss ends
\* without raising, through the patience or the epoch cap; line 118 appends its
\* best loss to fold_losses; the trial returns a score (never NaN) and the study
\* records it as a COMPLETE trial with that score
C11_NeverImprovingFoldScored ==
    [][/\ (obj.pc = "epoch" /\ obj'.pc # "epoch" /\ NeverImproves(val_losses')
              /\ obj'.raised # "RuntimeError") =>
              /\ obj'.pc = "fold_end"
              /\ obj'.patience_counter = Patience \/ obj'.epoch = MaxEpochs
              /\ obj'.best_val_loss = InitialBest(val_losses')
       /\ (obj.pc = "fold_end" /\ NeverImproves(val_losses)) =>
              /\ obj'.pc = "split"
              /\ obj'.fold_losses = Append(obj.fold_losses, InitialBest(val_losses))
       /\ (obj.pc = "split" /\ obj.fold = n_splits) =>
              /\ obj'.pc = "returned"
              /\ ~ValIsNaN(obj'.value)
       /\ obj.pc = "returned" =>
              /\ Len(study'.trials) = Len(study.trials) + 1
              /\ study'.trials[Len(study'.trials)].state = "COMPLETE"
              /\ study'.trials[Len(study'.trials)].value = obj.value
      ]_vars

\* a trial whose three folds never got below inf is recorded COMPLETE with inf
C11_Witness ==
    /\ Len(study.trials) = 1
    /\ study.trials[1].state = "COMPLETE"
    /\ study.trials[1].value = InfValue

PrunedTrials == {i \in 1..Len(study.trials) : study.trials[i].state = "PRUNED"}

\* C12: pruning never discards the true best trial: for the same configurations
\* and losses, the best score of the search with pruning disabled is <= the best
\* score of the search as run (and, no trial being pruned, equal to it), and no
\* pruned trial would have scored better than the best trial
C12_PruningKeepsBest ==
    AfterSearch =>
        /\ study_nop.best_trial # 0
        /\ Len(study_nop.trials) = Len(study.trials)
        /\ ValLe(study_nop.trials[study_nop.best_trial].value,
                 study.trials[study.best_trial].value)
        /\ ValLe(study.trials[study.best_trial].value,
                 study_nop.trials[study_nop.best_trial].value)
        /\ \A i \in PrunedTrials :
               ~ValLt(study_nop.trials[i].value, study.trials[study.best_trial].value)

\* a search of two scored trials, the second the better one, with and without
\* pruning
C12_Witness ==
    /\ pc = "build_final"
    /\ Len(study.trials) = MaxTrials
    /\ study.best_trial = 2
    /\ study_nop.best_trial = 2
    /\ ValLt(study_nop.trials[2].value, study_nop.trials[1].value)
    /\ ~ValIsInf(study_nop.trials[1].value)

\* the value the scheduler observes, the fold's best validation loss so far, has
\* been the same over the last SchedPatience epochs of the fold: none of them
\* improved it
ObservedPlateau(F) == F.patience_counter >= SchedPatience

\* C13: in a search-time fold the scheduler is stepped once per epoch with the
\* best validation loss the fold has seen so far, and the learning rate is
\* halved only after a plateau of 3 epochs of that observed value; the plateau
\* count is the scheduler's own, not the early-stopping counter
C13_HalvesOnlyOnPlateau ==
    [][(obj.pc = "epoch" /\ obj'.pc # "raised") =>
           /\ obj'.epoch = obj.epoch + 1
           /\ obj'.sched_bad \in {0, obj.sched_bad + 1}
           /\ obj'.lr_halvings \in {obj.lr_halvings, obj.lr_halvings + 1}
           /\ obj'.lr_halvings > obj.lr_halvings => ObservedPlateau(obj)
      ]_vars

\* the same for the first fold of a trial, where the scheduler is new
FirstFoldHalvesOnPlateau ==
    [][(obj.pc = "epoch" /\ obj'.pc # "raised" /\ obj.fold = 1) =>
           (obj'.lr_halvings > obj.lr_halvings => ObservedPlateau(obj))
      ]_vars

\* C14, as stated: for any two different folds of the split, the training index
\* set of one shares no index with the validation index set of the other
C14_TrainDisjointFromOtherVal ==
    obj.fold >= 1 =>
        \A k \in 1..n_splits :
            k # obj.fold => obj.train_idx \cap TimeSeriesSplit(obj.n, k).val = {}

\* C14, amended: the training index set of a fold shares no index with the
\* validation index set of the same or of any later fold, and it contains the
\* validation index set of every earlier fold
C14_TrainDisjointFromLaterVal ==
    obj.fold >= 1 =>
        /\ obj.train_idx = TimeSeriesSplit(obj.n, obj.fold).train
        /\ \A k \in obj.fold..n_splits :
               obj.train_idx \cap TimeSeriesSplit(obj.n, k).val = {}
        /\ \A k \in 1..(obj.fold - 1) :
               TimeSeriesSplit(obj.n, k).val \subseteq obj.train_idx

C14_Witness ==
    /\ obj.pc = "epoch"
    /\ obj.fold = 2
    /\ Cardinality(TimeSeriesSplit(obj.n, 1).val) >= 2
    /\ TimeSeriesSplit(obj.n, 1).val \subseteq obj.train_idx
    /\ obj.train_idx \cap TimeSeriesSplit(obj.n, n_splits).val = {}

\* C15: a training split from which no fold with a validation sample can be
\* formed (the validation chunk of a fold would have no element) makes the run fail fast: the trial raises (ValueError of split()) before
\* any epoch or gradient update, no fold is entered or skipped and no fold loss
\* is recorded, the trial gets no score and the error ends the run
C15_DegenerateSplitFailsFast ==
    test_size(N) = 0 =>
        /\ obj.pc \in {"idle", "split", "raised"}
        /\ obj.pc = "raised" => obj.raised = "ValueError"
        /\ obj.model_seen = 0 - 1
        /\ obj.epoch = 0
        /\ obj.fold = 0
        /\ obj.fold_losses = <<>>
        /\ study.best_trial = 0
        /\ \A i \in 1..Len(study.trials) :
               /\ study.trials[i].state = "FAIL"
               /\ study.trials[i].fail_reason = "ValueError"
        /\ Len(study.trials) >= 1 => pc = "error" /\ exc = "ValueError"

\* three sequences, one short of the four that three folds need: the run has
\* ended with the ValueError of the first trial
C15_Witness ==
    /\ N = n_folds - 1
    /\ pc = "error"
    /\ exc = "ValueError"
    /\ Len(study.trials) = 1
    /\ obj.pc = "idle"

\* the sum over the first v samples of the validation subset of the mean loss of
\* the batch the sample is in
RECURSIVE SampleSum(_, _)
SampleSum(means, v) ==
    IF v = 0 THEN 0
    ELSE means[((v - 1) \div batch_size) + 1] + SampleSum(means, v - 1)

\* C16: the validation loss of an epoch is the mean weighted by batch size: the
\* sum over the batches of (batch mean loss x samples in the batch) divided by
\* the number of validation samples, every sample weighing the same, so that a
\* partial final batch weighs by its own size (32 samples of mean 1 and one of
\* mean 2 give 34/33, not 3/2)
C16_WeightedByBatchSize ==
    val_pass.pc = "done" =>
        /\ Len(val_pass.means) = NumBatches(val_pass.V)
        /\ val_pass.result[2] = val_pass.V
        /\ val_pass.result[1] = SampleSum(val_pass.means, val_pass.V)
        /\ (val_pass.V = batch_size + 1 /\ val_pass.means = <<1, 2>>) =>
               val_pass.result = <<batch_size + 2, batch_size + 1>>

\* two full batches and a final batch of one sample, with different means
C16_Witness ==
    /\ val_pass.pc = "done"
    /\ val_pass.V = 2 * batch_size + 1
    /\ val_pass.means = <<1, 1, 2>>
    /\ val_pass.result = <<2 * batch_size + 2, 2 * batch_size + 1>>

SetMin(S) == CHOOSE x \in S : \A y \in S : x <= y

\* the least of the losses h and of the inf of line 87; a NaN loss is less than
\* nothing and is never the least
MinLoss(h) == SetMin({h[e] : e \in {i \in 1..Len(h) : h[i] # NaN}} \cup {Inf})

\* the number of consecutive most recent epochs of h whose loss was not strictly
\* less than the least loss before them
RECURSIVE NoImprovementRun(_)
NoImprovementRun(h) ==
    IF h = <<>> THEN 0
    ELSE LET before == SubSeq(h, 1, Len(h) - 1)
         IN  IF Lt(h[Len(h)], MinLoss(before)) THEN 0
             ELSE 1 + NoImprovementRun(before)

\* C17: after every epoch of a fold the best validation loss is the minimum of
\* the validation losses of the epochs run so far in the fold (the inf of line 87
\* while none is below it; a NaN loss never counts), and the no-improvement
\* counter is the number of consecutive most recent epochs whose loss was not
\* strictly less than the best before them, a loss equal to the best among
\* them; the counter stays in 0..5
C17_BestIsMinCounterIsRun ==
    (obj.pc \in {"epoch", "fold_end"}) =>
        /\ obj.epoch = Len(val_losses)
        /\ obj.best_val_loss = MinLoss(val_losses)
        /\ obj.patience_counter = NoImprovementRun(val_losses)
        /\ obj.patience_counter \in 0..Patience
        /\ \A e \in 1..Len(val_losses) :
               MinLoss(val_losses) <= MinLoss(SubSeq(val_losses, 1, e))

\* six epochs: two improvements, then a loss equal to the best, a NaN, a larger
\* loss and the best again
C17_Witness ==
    /\ obj.pc = "epoch"
    /\ val_losses = <<2, 1, 1, NaN, 2, 1>>
    /\ obj.best_val_loss = 1
    /\ obj.patience_counter = 4

\* the epoch loop of the first fold of a new trial, run on the losses h
AloneOn(h) == RunEpochs(FrameAtFold(obj.params, n_folds, 1), h, 0)

\* C18: the training state is local to the fold: every fold starts with the best
\* validation loss at inf and the no-improvement counter at 0, and the best loss
\* a fold contributes and the epoch at which it stops are those of a fold run
\* alone on the same validation losses, whatever the folds before it left
C18_FoldLocalState ==
    /\ (obj.pc = "epoch" /\ obj.epoch = 0) =>
           obj.best_val_loss = Inf /\ obj.patience_counter = 0
    /\ obj.pc = "fold_end" =>
           /\ Len(val_losses) = obj.epoch
           /\ AloneOn(val_losses).pc = "fold_end"
           /\ obj.epoch = AloneOn(val_losses).epoch
           /\ obj.best_val_loss = AloneOn(val_losses).best_val_loss
           /\ obj.patience_counter = AloneOn(val_losses).patience_counter
    /\ (obj.pc = "split" /\ obj.fold >= 1) =>
           obj.fold_losses[obj.fold] = AloneOn(val_losses).best_val_loss

\* the third fold has stopped on losses above the best of the folds before it
C18_Witness ==
    /\ obj.pc = "fold_end"
    /\ obj.fold = n_splits
    /\ obj.fold_losses = <<1, 1>>
    /\ val_losses[1] = 3
    /\ obj.best_val_loss = 2
    /\ obj.epoch = Patience + 2

\* C19: no future leakage across the folds of a trial: whenever a fold's
\* validation loss is computed, the one model of the trial, trained by this fold
\* and by the folds before it, has had no gradient update from a sample whose
\* index is greater than or equal to the fold's smallest validation index
C19_NoFutureLeakage ==
    (obj.fold >= 1 /\ obj.pc \in {"epoch", "fold_end", "split"}) =>
        /\ obj.val_idx # {}
        /\ \A v \in obj.val_idx : obj.model_seen < v

\* the last fold has been validated by a model that the folds before it trained
\* too, the validation samples of those folds among its training samples
C19_Witness ==
    /\ obj.pc = "fold_end"
    /\ obj.fold = n_splits
    /\ obj.n = MaxNTrial
    /\ obj.model_seen = SetMax(obj.train_idx)
    /\ TimeSeriesSplit(obj.n, 2).val \subseteq 0..obj.model_seen
    /\ \A v \in obj.val_idx : obj.model_seen < v

\* C20: no trial is ended by pruning: objective() reports nothing to the trial
\* and never asks whether to prune, so no trial is PRUNED, a trial that returns
\* has run all 3 folds and returns their aggregate score, and a search in which
\* no trial raised has run exactly n_trials trials, one at a time, all COMPLETE
C20_NoTrialPruned ==
    /\ PrunedTrials = {}
    /\ ~obj.pruned
    /\ Len(study.trials) <= MaxTrials
    /\ obj.pc = "returned" =>
           /\ obj.fold = n_splits
           /\ Len(obj.fold_losses) = n_splits
           /\ obj.value = np_mean(obj.fold_losses)
    /\ obj.pc # "idle" => Len(study.trials) < MaxTrials
    /\ AfterSearch =>
           /\ Len(study.trials) = MaxTrials
           /\ CompleteTrials = 1..MaxTrials

\* the search is over: all trials are COMPLETE, one that never got a loss below
\* inf among them
C20_Witness ==
    /\ pc = "build_final"
    /\ CompleteTrials = 1..MaxTrials
    /\ study.trials[1].value = InfValue
    /\ study.best_trial = MaxTrials

====
